---- MODULE Spec2Model ----
(***************************************************************************)
(* A model of the IndiaBix current-affairs scraper (src/scraper.py):       *)
(* the retrying fetch layer, the per-page extractor and the date-range     *)
(* driver.                                                                 *)
(*                                                                         *)
(* Python values are modelled as follows.                                  *)
(*   str            a TLA+ string                                          *)
(*   Optional[x]    <<>> for None, <<x>> for a value (block.find(...))     *)
(*   list           a sequence                                             *)
(*   dict           a record                                               *)
(***************************************************************************)
EXTENDS Integers, Sequences, FiniteSets, TLC

VARIABLES
    soup,            \* the parsed page handed to extract_questions (<<>> before parsing)
    outcome,         \* how the last extract_questions call ended (<<>> before the call)
    dates,           \* scrape_weekly_questions: the input list of dates
    date_pos,        \* scrape_weekly_questions: position of the for loop in dates
    all_questions,   \* scrape_weekly_questions: the accumulated list
    pc,              \* control point of the run
    retry_total,     \* urllib3 Retry.total left for the request in flight
    responses,       \* what the transport answered to the attempts of the latest request
    fetch_log,       \* one entry per finished scrape_date_wise call, in call order
    collaborator,    \* translate_question: how the translation collaborator behaves
    heap,            \* translate_question: the dicts and lists, by reference
    tq,              \* translate_question: its locals and those of the text in translation
    t_input,         \* translate_question: the values of the argument when it was called
    t_return,        \* translate_question: the reference returned (<<>> before it returns)
    rt,              \* translate_text_with_retry called alone: its locals and its calls
    ta,              \* translate_all: its argument, its locals and what it returned
    program,         \* main: the entry point that runs, IndiaBix/main.py or main.py
    main_pc,         \* main: the statement main() has reached
    output_dir_ok,   \* main: whether the output directory exists or can be created
    main_questions,  \* main: questions, the list scrape_weekly_questions returned
    scraped_data_map, \* main: main.py, the lists still to process, by source
    pdf_path_detailed, \* main: what the detailed generate_pdf returned
    pdf_path_compact, \* main: what the compact generate_pdf returned
    invoked,         \* main: the collaborators called, in call order
    console,         \* main: the lines printed and logged, in order
    files,           \* main: the files written to the output directory
    source_idx,      \* main: main.py, the position of the loop over the sources
    failure,         \* main: the exception that reached main's handler, if any
    exit_status      \* main: the status the process ended with (<<>> while it runs)

scraper_vars == <<soup, outcome, dates, date_pos, all_questions, pc, retry_total,
                  responses, fetch_log>>

translate_vars == <<collaborator, heap, tq, t_input, t_return, rt, ta>>

main_vars == <<program, main_pc, output_dir_ok, main_questions, scraped_data_map,
               pdf_path_detailed, pdf_path_compact, invoked, console, files,
               source_idx, failure, exit_status>>

vars == <<scraper_vars, translate_vars, main_vars>>

----------------------------------------------------------------------------
(* Bounds of the model.                                                    *)

MaxBlocks == 2      \* question blocks on a page given to the extractor alone
MaxDates == 2       \* dates in the list given to scrape_weekly_questions

(* config.py *)
MAX_RETRIES == 3

----------------------------------------------------------------------------
(* Text.                                                                   *)

None == <<>>
Some(x) == <<x>>

(* Tag.get_text(strip=True) / str.strip() on the texts the pages carry.    *)
strip(s) ==
    CASE s = "   " -> ""
      [] s = " " -> ""
      [] s = " Who won the cup? " -> "Who won the cup?"
      [] s = "Capital of France? " -> "Capital of France?"
      [] s = " Paris" -> "Paris"
      [] s = "Rome " -> "Rome"
      [] s = " It was held in 2024. " -> "It was held in 2024."
      [] s = " Sports " -> "Sports"
      [] OTHER -> s

(* ord() of the one-character strings used as answer tokens.               *)
CodePoint ==
    [c \in {"1", "@", "A", "B", "C", "D", "Z", "b"} |->
        CASE c = "1" -> 49
          [] c = "@" -> 64
          [] c = "A" -> 65
          [] c = "B" -> 66
          [] c = "C" -> 67
          [] c = "D" -> 68
          [] c = "Z" -> 90
          [] c = "b" -> 98]

(* ord(s): TypeError unless s is a string of length one.                   *)
ord(s) ==
    IF Len(s) = 1 THEN [kind |-> "value", value |-> CodePoint[s]]
    ELSE [kind |-> "raise", exc |-> "TypeError"]

(* Python list indexing lst[i]: negative i counts from the end, anything   *)
(* outside -len..len-1 raises IndexError.                                  *)
list_getitem(lst, i) ==
    IF i >= 0 /\ i < Len(lst) THEN [kind |-> "value", value |-> lst[i + 1]]
    ELSE IF i < 0 /\ i >= -Len(lst) THEN [kind |-> "value", value |-> lst[Len(lst) + i + 1]]
    ELSE [kind |-> "raise", exc |-> "IndexError"]

----------------------------------------------------------------------------
(* Pages.  A question block (div.bix-div-container) is the record of what  *)
(* the extractor's selectors find in it:                                   *)
(*   qtxt  div.bix-td-qtxt: None or its raw text                           *)
(*   opts  div.bix-tbl-options: None or the raw texts of its option divs   *)
(*   ans   input.jq-hdnakq: None or its value attribute ("" when missing)  *)
(*   exp   div.bix-ans-description: None or its raw text                   *)
(*   cat   div.explain-link: None, or Some(None) without an <a>, or        *)
(*         Some(Some(raw text of the <a>))                                 *)

RawOptions == <<" Paris", " ", "London", "Rome ">>

AnswerTokens == {"", "A", "B", "C", "D", "Z", "@", "1", "b", "AB"}

QuestionTexts == {"   ", " Who won the cup? "}

(* Blocks that vary the question text, the options and the answer input.   *)
AnswerBlocks ==
    [qtxt : {Some(q) : q \in QuestionTexts},
     opts : {None, Some(RawOptions)},
     ans  : {None} \cup {Some(t) : t \in AnswerTokens},
     exp  : {Some(" It was held in 2024. ")},
     cat  : {Some(Some(" Sports "))}]

(* Blocks that vary the optional explanation and category.                 *)
DetailBlocks ==
    [qtxt : {Some("Capital of France? ")},
     opts : {Some(RawOptions)},
     ans  : {None, Some("A")},
     exp  : {None, Some(" It was held in 2024. ")},
     cat  : {None, Some(None), Some(Some(" Sports "))}]

(* A container without a question-text element.                            *)
NoQuestionBlock ==
    [qtxt |-> None, opts |-> Some(RawOptions), ans |-> Some("B"),
     exp |-> None, cat |-> None]

Blocks == AnswerBlocks \cup DetailBlocks \cup {NoQuestionBlock}

RECURSIVE SeqsUpTo(_, _)
SeqsUpTo(S, n) ==
    IF n = 0 THEN {<<>>}
    ELSE LET shorter == SeqsUpTo(S, n - 1)
         IN shorter \cup {Append(s, x) : s \in {t \in shorter : Len(t) = n - 1}, x \in S}

(* A parsed page: the alert banner (div.alert-danger, None or its text)    *)
(* and the question blocks in document order.                              *)
ExtractorPages == [alert : {None}, blocks : SeqsUpTo(Blocks, MaxBlocks)]

----------------------------------------------------------------------------
(* extract_questions, src/scraper.py:58-140.                               *)

(* lines 83-91: the stripped, non-empty option texts in order.             *)
RECURSIVE option_texts(_)
option_texts(option_divs) ==
    IF option_divs = <<>> THEN <<>>
    ELSE LET opt_text == strip(Head(option_divs))
             rest == option_texts(Tail(option_divs))
         IN IF opt_text # "" THEN <<opt_text>> \o rest ELSE rest

extract_options(block) ==
    IF block.opts # None THEN option_texts(block.opts[1]) ELSE <<>>

(* extract_answer with the index taken one too far (no "- ord('A')" base   *)
(* correction of the +1 of the length test).                               *)
extract_answer_off_by_one(block, options) ==
    IF block.ans = None THEN [kind |-> "value", value |-> "Not available"]
    ELSE
        LET answer_value == block.ans[1] IN
        IF answer_value = "" THEN [kind |-> "value", value |-> "Option " \o answer_value]
        ELSE
            LET o == ord(answer_value) IN
            IF o.kind = "raise" THEN o
            ELSE IF Len(options) >= o.value - CodePoint["A"] + 1 THEN
                LET answer_index == o.value - CodePoint["A"] + 1
                    item == list_getitem(options, answer_index)
                IN IF item.kind = "raise" THEN item
                   ELSE [kind |-> "value",
                         value |-> "Option " \o answer_value \o ": " \o item.value]
            ELSE [kind |-> "value", value |-> "Option " \o answer_value]

(* extract_answer with an empty default instead of "Not available".        *)
extract_answer_blank_default(block, options) ==
    IF block.ans = None THEN [kind |-> "value", value |-> ""]
    ELSE
        LET answer_value == block.ans[1] IN
        IF answer_value = "" THEN [kind |-> "value", value |-> "Option " \o answer_value]
        ELSE
            LET o == ord(answer_value) IN
            IF o.kind = "raise" THEN o
            ELSE IF Len(options) >= o.value - CodePoint["A"] + 1 THEN
                LET answer_index == o.value - CodePoint["A"]
                    item == list_getitem(options, answer_index)
                IN IF item.kind = "raise" THEN item
                   ELSE [kind |-> "value",
                         value |-> "Option " \o answer_value \o ": " \o item.value]
            ELSE [kind |-> "value", value |-> "Option " \o answer_value]

(* lines 93-103: the answer of a block, or the exception the lookup raises. *)
extract_answer(block, options) ==
    IF block.ans = None THEN [kind |-> "value", value |-> "Not available"]
    ELSE
        LET answer_value == block.ans[1] IN
        IF answer_value = "" THEN [kind |-> "value", value |-> "Option " \o answer_value]
        ELSE
            LET o == ord(answer_value) IN
            IF o.kind = "raise" THEN o
            ELSE IF Len(options) >= o.value - CodePoint["A"] + 1 THEN
                LET answer_index == o.value - CodePoint["A"]
                    item == list_getitem(options, answer_index)
                IN IF item.kind = "raise" THEN item
                   ELSE [kind |-> "value",
                         value |-> "Option " \o answer_value \o ": " \o item.value]
            ELSE [kind |-> "value", value |-> "Option " \o answer_value]

(* lines 105-109 *)
extract_explanation(block) ==
    IF block.exp # None THEN strip(block.exp[1]) ELSE ""

(* lines 111-117 *)
extract_category(block) ==
    IF block.cat # None /\ block.cat[1] # None THEN strip(block.cat[1][1]) ELSE ""

(* A variant whose numbering goes on from the records collected by the     *)
(* earlier calls.                                                          *)
extract_block_running_counter(block, idx) ==
    IF block.qtxt = None THEN [kind |-> "continue"]
    ELSE
        LET question_text == strip(block.qtxt[1])
            options == extract_options(block)
            answer == extract_answer(block, options)
        IN IF answer.kind = "raise" THEN answer
           ELSE [kind |-> "record",
                 rec |-> [question_no |-> Len(all_questions) + idx,
                          question |-> question_text,
                          options |-> options,
                          answer |-> answer.value,
                          explanation |-> extract_explanation(block),
                          category |-> extract_category(block)]]

(* lines 73-129, the body of the per-block try: "continue" (line 79), the  *)
(* record appended at line 128, or the exception raised on the way.        *)
extract_block(block, idx) ==
    IF block.qtxt = None THEN [kind |-> "continue"]
    ELSE
        LET question_text == strip(block.qtxt[1])
            options == extract_options(block)
            answer == extract_answer(block, options)
        IN IF answer.kind = "raise" THEN answer
           ELSE [kind |-> "record",
                 rec |-> [question_no |-> idx,
                          question |-> question_text,
                          options |-> options,
                          answer |-> answer.value,
                          explanation |-> extract_explanation(block),
                          category |-> extract_category(block)]]

(* A variant without the per-block except: the first exception leaves the  *)
(* loop and the outer except (lines 138-140) returns what was collected.   *)
RECURSIVE extract_loop_abort(_, _, _)
extract_loop_abort(question_blocks, idx, questions_data) ==
    IF idx > Len(question_blocks) THEN questions_data
    ELSE LET r == extract_block(question_blocks[idx], idx)
         IN IF r.kind = "raise" THEN questions_data
            ELSE extract_loop_abort(question_blocks, idx + 1,
                                    IF r.kind = "record" THEN Append(questions_data, r.rec)
                                    ELSE questions_data)

(* lines 72-133: the for loop; the except of lines 131-133 catches what a  *)
(* block raises and goes on with the next block.                           *)
RECURSIVE extract_loop(_, _, _)
extract_loop(question_blocks, idx, questions_data) ==
    IF idx > Len(question_blocks) THEN questions_data
    ELSE LET r == extract_block(question_blocks[idx], idx)
         IN extract_loop(question_blocks, idx + 1,
                         IF r.kind = "record" THEN Append(questions_data, r.rec)
                         ELSE questions_data)

(* extract_questions reading the first block before the emptiness test and *)
(* outside any try: a page without blocks raises IndexError.               *)
extract_questions_unguarded(page) ==
    LET question_blocks == page.blocks
    IN IF question_blocks = <<>> THEN [kind |-> "raise", exc |-> "IndexError"]
       ELSE [kind |-> "return", value |-> extract_loop(question_blocks, 1, <<>>)]

(* extract_questions collecting into a list that outlives the call: the    *)
(* records of the earlier calls are still in it.                           *)
extract_questions_keeps_list(page) ==
    LET question_blocks == page.blocks
    IN IF question_blocks = <<>> THEN [kind |-> "return", value |-> <<>>]
       ELSE [kind |-> "return", value |-> extract_loop(question_blocks, 1, all_questions)]

(* lines 58-140: how the call ends, "return" with the list or "raise".     *)
extract_questions(page) ==
    LET question_blocks == page.blocks
    IN IF question_blocks = <<>> THEN [kind |-> "return", value |-> <<>>]
       ELSE [kind |-> "return", value |-> extract_loop(question_blocks, 1, <<>>)]

----------------------------------------------------------------------------
(* The variables of a part of the program that a specification leaves      *)
(* out stay at these values.                                               *)

IdleLocals ==
    [pc |-> "idle", class |-> "", question |-> "", translated |-> "", iter |-> "",
     k |-> 0, attempt |-> 0, calls |-> 0, sleeps |-> 0]

RetryIdle ==
    [pc |-> "idle", text |-> "", attempt |-> 0, chunk |-> 0,
     translated_chunks |-> <<>>, log |-> <<>>, result |-> None]

BatchIdle ==
    [pc |-> "idle", available |-> TRUE, questions |-> <<>>, i |-> 0,
     translated_questions |-> <<>>, result |-> None]

TranslateIdle ==
    /\ collaborator = "none"
    /\ heap = <<>>
    /\ tq = IdleLocals
    /\ t_input = None
    /\ t_return = None
    /\ rt = RetryIdle
    /\ ta = BatchIdle

MainIdle ==
    /\ program = "none"
    /\ main_pc = "idle"
    /\ output_dir_ok = TRUE
    /\ main_questions = <<>>
    /\ scraped_data_map = <<>>
    /\ pdf_path_detailed = None
    /\ pdf_path_compact = None
    /\ invoked = <<>>
    /\ console = <<>>
    /\ files = {}
    /\ source_idx = 1
    /\ failure = None
    /\ exit_status = None

----------------------------------------------------------------------------
(* The extractor alone: a page is parsed, then extract_questions runs.     *)

InitExtract ==
    /\ soup = None
    /\ outcome = None
    /\ dates = <<>>
    /\ date_pos = 1
    /\ all_questions = <<>>
    /\ pc = "parse"
    /\ retry_total = 0
    /\ responses = <<>>
    /\ fetch_log = <<>>
    /\ TranslateIdle
    /\ MainIdle

(* BeautifulSoup(response.content, 'lxml'), line 49 *)
ParsePage ==
    /\ pc = "parse"
    /\ \E page \in ExtractorPages : soup' = Some(page)
    /\ pc' = "extract"
    /\ UNCHANGED <<outcome, dates, date_pos, all_questions, retry_total, responses, fetch_log>>
    /\ UNCHANGED <<translate_vars, main_vars>>

ExtractQuestions ==
    /\ pc = "extract"
    /\ outcome' = Some(extract_questions(soup[1]))
    /\ pc' = "extracted"
    /\ UNCHANGED <<soup, dates, date_pos, all_questions, retry_total, responses, fetch_log>>
    /\ UNCHANGED <<translate_vars, main_vars>>

NextExtract == ParsePage \/ ExtractQuestions

SpecExtract == InitExtract /\ [][NextExtract]_vars

----------------------------------------------------------------------------
(* Dates and the pages the site serves.                                    *)

DateSet == {[year |-> 2024, month |-> 2, day |-> 20],
            [year |-> 2024, month |-> 2, day |-> 21]}

Digits == <<"0", "1", "2", "3", "4", "5", "6", "7", "8", "9">>

RECURSIVE decimal(_)
decimal(n) ==
    IF n < 10 THEN Digits[n + 1] ELSE decimal(n \div 10) \o Digits[(n % 10) + 1]

RECURSIVE zero_pad(_, _)
zero_pad(digits, width) ==
    IF Len(digits) >= width THEN digits ELSE zero_pad("0" \o digits, width)

(* date_obj.strftime('%Y-%m-%d') *)
strftime(date_obj) ==
    zero_pad(decimal(date_obj.year), 4) \o "-"
    \o zero_pad(decimal(date_obj.month), 2) \o "-"
    \o zero_pad(decimal(date_obj.day), 2)

BlockParis ==
    [qtxt |-> Some("Capital of France? "), opts |-> Some(RawOptions), ans |-> Some("A"),
     exp |-> Some(" It was held in 2024. "), cat |-> Some(Some(" Sports "))]

BlockCup ==
    [qtxt |-> Some(" Who won the cup? "), opts |-> None, ans |-> None,
     exp |-> None, cat |-> None]

BlockRome ==
    [qtxt |-> Some(" Who won the cup? "), opts |-> Some(RawOptions), ans |-> Some("C"),
     exp |-> None, cat |-> Some(None)]

PageThree == [alert |-> None, blocks |-> <<BlockParis, BlockCup, BlockRome>>]
PageGap == [alert |-> None, blocks |-> <<NoQuestionBlock, BlockCup>>]
PageEmpty == [alert |-> None, blocks |-> <<>>]
PageNotFound == [alert |-> Some("Page Not Found"), blocks |-> <<BlockCup>>]
PageOtherAlert == [alert |-> Some("Login failed"), blocks |-> <<BlockParis>>]

SitePages == {PageThree, PageGap, PageEmpty, PageNotFound, PageOtherAlert}

(* str.lower() on the banner texts *)
lower(s) ==
    CASE s = "Page Not Found" -> "page not found"
      [] s = "Login failed" -> "login failed"
      [] OTHER -> s

(* 'not found' in s, on the lowered banner texts *)
contains_not_found(s) == s \in {"page not found", "not found"}

----------------------------------------------------------------------------
(* The fetch layer, src/scraper.py:24-55.  One transport attempt is        *)
(* answered by an HTTP response (its status, and the parsed body of a 200) *)
(* or by a failure to connect in time ("error", which the retry policy     *)
(* retries); "rejected" is session.get refusing the URL before anything is *)
(* sent.  exc is the requests exception the failure surfaces as.           *)

TransportAnswers ==
    {[kind |-> "response", status |-> 200, page |-> Some(p), exc |-> ""] : p \in SitePages}
    \cup {[kind |-> "response", status |-> st, page |-> None, exc |-> ""] :
             st \in {404, 429, 503}}
    \cup {[kind |-> "error", status |-> 0, page |-> None, exc |-> "ConnectTimeout"]}
    \cup {[kind |-> "rejected", status |-> 0, page |-> None, exc |-> "InvalidURL"]}

(* line 31 *)
status_forcelist == {429, 500, 502, 503, 504}

(* A forcelist that leaves out 503.                                        *)
should_retry_without_503(answer) ==
    answer.kind = "error" \/ answer.status \in {429, 500, 502, 504}

(* The adapter mounted at lines 35-37 retries an attempt that failed to    *)
(* connect or read, and a response whose status is in status_forcelist.    *)
should_retry(answer) ==
    answer.kind = "error" \/ answer.status \in status_forcelist

(* lines 28-29: every request starts with Retry(total=MAX_RETRIES).        *)
create_session == MAX_RETRIES

(* Retry.increment() and Retry.is_exhausted() on the total count.          *)
increment(total) == total - 1
is_exhausted(total) == total < 0

(* line 53: the classes `except requests.exceptions.RequestException`      *)
(* catches.                                                                *)
RequestException ==
    {"RequestException", "HTTPError", "ConnectionError", "ConnectTimeout", "ReadTimeout",
     "Timeout", "RetryError", "InvalidURL", "MissingSchema"}

(* line 46: how session.get ends on the answer that ended the request: a   *)
(* forcelist status that ended it exhausted the retries (RetryError), a    *)
(* failure raises its exception, any other response is returned.           *)
session_get(answer) ==
    IF answer.kind = "response"
    THEN IF should_retry(answer) THEN [kind |-> "raise", exc |-> "RetryError"]
         ELSE [kind |-> "return", value |-> answer]
    ELSE [kind |-> "raise", exc |-> answer.exc]

(* line 47: response.raise_for_status() *)
raise_for_status(response) ==
    IF response.status >= 400 /\ response.status < 600
    THEN [kind |-> "raise", exc |-> "HTTPError"]
    ELSE [kind |-> "return", value |-> None]

(* The exception raised inside the try of lines 44-51, None when none is.  *)
fetch_exception(answer) ==
    LET got == session_get(answer)
    IN IF got.kind = "raise" THEN Some(got.exc)
       ELSE LET checked == raise_for_status(got.value)
            IN IF checked.kind = "raise" THEN Some(checked.exc) ELSE None

(* fetch_page with `except requests.exceptions.HTTPError` in place of the  *)
(* RequestException of line 53.                                            *)
fetch_page_catches_http_error_only(answer) ==
    LET exc == fetch_exception(answer)
    IN IF exc = None THEN [kind |-> "return", value |-> answer.page]
       ELSE IF exc[1] = "HTTPError" THEN [kind |-> "return", value |-> None]
       ELSE [kind |-> "raise", exc |-> exc[1]]

(* lines 42-55: how fetch_page ends once session.get has ended with        *)
(* `answer`: it returns the parsed page, or None for a RequestException;   *)
(* any other exception leaves it.                                          *)
fetch_page(answer) ==
    LET exc == fetch_exception(answer)
    IN IF exc = None THEN [kind |-> "return", value |-> answer.page]
       ELSE IF exc[1] \in RequestException THEN [kind |-> "return", value |-> None]
       ELSE [kind |-> "raise", exc |-> exc[1]]

----------------------------------------------------------------------------
(* The date-range driver, src/scraper.py:143-181.                          *)

(* The banner test without .lower(): 'not found' in error_alert.get_text() *)
is_not_found_case_sensitive(page) ==
    page.alert # None /\ contains_not_found(page.alert[1])

(* lines 155-156 *)
is_not_found(page) ==
    page.alert # None /\ contains_not_found(lower(page.alert[1]))

(* lines 162-164: question['date'] = date_obj.strftime('%Y-%m-%d')         *)
stamp(questions, date_obj) ==
    [i \in 1..Len(questions) |-> [date |-> strftime(date_obj)] @@ questions[i]]

(* scrape_date_wise that returns the records without the date.             *)
scrape_date_wise_unstamped(date_obj, fetched) ==
    IF fetched = None \/ is_not_found(fetched[1])
    THEN [kind |-> "return", value |-> <<>>, extracted |-> FALSE, slept |-> FALSE]
    ELSE LET o == extract_questions(fetched[1])
         IN IF o.kind = "raise"
            THEN [kind |-> "raise", value |-> <<>>, extracted |-> TRUE, slept |-> FALSE]
            ELSE [kind |-> "return", value |-> o.value, extracted |-> TRUE, slept |-> TRUE]

(* lines 143-167 after fetch_page has returned `fetched`: the list         *)
(* returned, whether the extractor ran and whether time.sleep(1) ran.      *)
scrape_date_wise(date_obj, fetched) ==
    IF fetched = None
    THEN [kind |-> "return", value |-> <<>>, extracted |-> FALSE, slept |-> FALSE]
    ELSE IF is_not_found(fetched[1])
    THEN [kind |-> "return", value |-> <<>>, extracted |-> FALSE, slept |-> FALSE]
    ELSE LET o == extract_questions(fetched[1])
         IN IF o.kind = "raise"
            THEN [kind |-> "raise", value |-> <<>>, extracted |-> TRUE, slept |-> FALSE]
            ELSE [kind |-> "return", value |-> stamp(o.value, date_obj),
                  extracted |-> TRUE, slept |-> TRUE]

(* A loop that gives up at the first date without records.                 *)
next_date_break_on_empty(pos, date_list, questions) ==
    IF questions = <<>> THEN Len(date_list) + 1 ELSE pos + 1

(* line 176: the for loop moves to the next date whatever the call gave.   *)
next_date(pos, date_list, questions) == pos + 1

Init ==
    /\ soup = None
    /\ outcome = None
    /\ dates \in SeqsUpTo(DateSet, MaxDates)
    /\ date_pos = 1
    /\ all_questions = <<>>
    /\ pc = "loop"
    /\ retry_total = 0
    /\ responses = <<>>
    /\ fetch_log = <<>>
    /\ TranslateIdle
    /\ MainIdle

(* lines 176-177, 145-149, 46: the loop calls scrape_date_wise, which      *)
(* calls fetch_page, which sends the request.                              *)
CallScrapeDateWise ==
    /\ pc = "loop"
    /\ date_pos <= Len(dates)
    /\ pc' = "fetch"
    /\ retry_total' = create_session
    /\ responses' = <<>>
    /\ UNCHANGED <<soup, outcome, dates, date_pos, all_questions, fetch_log>>
    /\ UNCHANGED <<translate_vars, main_vars>>

(* An attempt is answered and the retry policy sends the request again.    *)
TransportRetry ==
    /\ pc = "fetch"
    /\ \E answer \in TransportAnswers :
         /\ should_retry(answer)
         /\ ~is_exhausted(increment(retry_total))
         /\ retry_total' = increment(retry_total)
         /\ responses' = Append(responses, answer)
    /\ UNCHANGED <<soup, outcome, dates, date_pos, all_questions, pc, fetch_log>>
    /\ UNCHANGED <<translate_vars, main_vars>>

(* lines 149-167 and 177-178: fetch_page returned `fetched`; the rest of   *)
(* scrape_date_wise runs and the loop extends all_questions.               *)
(* An exception that leaves fetch_page or extract_questions leaves          *)
(* scrape_weekly_questions too (pc = "raised").                            *)
FinishDate(answer) ==
    LET date_obj == dates[date_pos]
        page_or_none == fetch_page(answer)
    IN /\ responses' = Append(responses, answer)
       /\ IF page_or_none.kind = "raise"
          THEN /\ pc' = "raised"
               /\ UNCHANGED <<all_questions, date_pos, fetch_log>>
          ELSE LET fetched == page_or_none.value
                   r == scrape_date_wise(date_obj, fetched)
               IN /\ fetch_log' = Append(fetch_log,
                                         [date |-> date_obj, fetched |-> fetched,
                                          extracted |-> r.extracted, slept |-> r.slept])
                  /\ IF r.kind = "raise"
                     THEN /\ pc' = "raised"
                          /\ UNCHANGED <<all_questions, date_pos>>
                     ELSE /\ pc' = "loop"
                          /\ all_questions' = all_questions \o r.value
                          /\ date_pos' = next_date(date_pos, dates, r.value)
       /\ UNCHANGED <<soup, outcome, dates, retry_total>>
       /\ UNCHANGED <<translate_vars, main_vars>>

(* The last attempt is answered by a response that is not retried.         *)
TransportResponds ==
    /\ pc = "fetch"
    /\ \E answer \in TransportAnswers :
         /\ answer.kind = "response"
         /\ ~should_retry(answer)
         /\ FinishDate(answer)

(* line 46: session.get refuses the URL (InvalidURL) and sends nothing.    *)
RequestRejected ==
    /\ pc = "fetch"
    /\ responses = <<>>
    /\ \E answer \in TransportAnswers :
         /\ answer.kind = "rejected"
         /\ FinishDate(answer)

(* The last attempt is answered by something to retry and no retry is left. *)
RetriesExhausted ==
    /\ pc = "fetch"
    /\ \E answer \in TransportAnswers :
         /\ should_retry(answer)
         /\ is_exhausted(increment(retry_total))
         /\ FinishDate(answer)

(* lines 180-181 *)
ReturnAllQuestions ==
    /\ pc = "loop"
    /\ date_pos > Len(dates)
    /\ pc' = "done"
    /\ UNCHANGED <<soup, outcome, dates, date_pos, all_questions, retry_total,
                   responses, fetch_log>>
    /\ UNCHANGED <<translate_vars, main_vars>>

Next ==
    \/ CallScrapeDateWise
    \/ TransportRetry
    \/ TransportResponds
    \/ RequestRejected
    \/ RetriesExhausted
    \/ ReturnAllQuestions

Spec == Init /\ [][Next]_vars

----------------------------------------------------------------------------
(* Properties of the driver and of the fetch layer (checked under Spec).   *)

Done == pc = "done"

(* The ISO form of the dates of DateSet, written out.                      *)
IsoDate(date_obj) ==
    CASE date_obj = [year |-> 2024, month |-> 2, day |-> 20] -> "2024-02-20"
      [] date_obj = [year |-> 2024, month |-> 2, day |-> 21] -> "2024-02-21"

(* C1: scrape_weekly_questions calls scrape_date_wise for every date of    *)
(* its input exactly once and in input order, whatever earlier dates gave; *)
(* it returns only after the last date.                                    *)
C1_EveryDateAttemptedInOrder ==
    /\ pc # "raised"
    /\ Len(fetch_log) <= Len(dates)
    /\ \A i \in 1..Len(fetch_log) : fetch_log[i].date = dates[i]
    /\ pc = "loop" => date_pos = Len(fetch_log) + 1
    /\ pc = "fetch" => (date_pos = Len(fetch_log) + 1 /\ date_pos <= Len(dates))
    /\ Done => Len(fetch_log) = Len(dates)

C1_Witness ==
    /\ Done
    /\ Len(dates) = 2
    /\ fetch_log[1].fetched = None
    /\ fetch_log[2].date = dates[2]
    /\ fetch_log[2].fetched = Some(PageThree)
    /\ Len(all_questions) = 3

(* What one finished date is expected to contribute: nothing when the      *)
(* fetch gave None or a not-found page, else the extracted records, each   *)
(* with the ISO date of that date.                                         *)
ExpectedOf(entry) ==
    IF entry.fetched = None \/ is_not_found(entry.fetched[1]) THEN <<>>
    ELSE LET recs == extract_questions(entry.fetched[1]).value
         IN [i \in 1..Len(recs) |->
                [question_no |-> recs[i].question_no,
                 question |-> recs[i].question,
                 options |-> recs[i].options,
                 answer |-> recs[i].answer,
                 explanation |-> recs[i].explanation,
                 category |-> recs[i].category,
                 date |-> IsoDate(entry.date)]]

RECURSIVE ExpectedAll(_)
ExpectedAll(log) ==
    IF log = <<>> THEN <<>>
    ELSE ExpectedAll(SubSeq(log, 1, Len(log) - 1)) \o ExpectedOf(log[Len(log)])

(* C2: the list built by scrape_weekly_questions is the concatenation, in  *)
(* input date order, of the records of the dates fetched, each record      *)
(* carrying the ISO date of its page; a date whose fetch gave None adds    *)
(* nothing (3 records on the first date and None on the second: exactly 3  *)
(* records, dated with the first date and numbered 1, 2, 3).               *)
C2_ResultIsStampedConcatenation ==
    /\ pc \in {"loop", "done"} => all_questions = ExpectedAll(fetch_log)
    /\ Done => [i \in 1..Len(fetch_log) |-> fetch_log[i].date] = dates
    /\ (/\ Done
        /\ Len(fetch_log) = 2
        /\ fetch_log[1].fetched = Some(PageThree)
        /\ fetch_log[2].fetched = None)
       => /\ Len(all_questions) = 3
          /\ \A i \in 1..3 :
               /\ all_questions[i].date = IsoDate(dates[1])
               /\ all_questions[i].question_no = i

C2_Witness ==
    /\ Done
    /\ dates = <<[year |-> 2024, month |-> 2, day |-> 20],
                 [year |-> 2024, month |-> 2, day |-> 21]>>
    /\ fetch_log[1].fetched = Some(PageThree)
    /\ fetch_log[2].fetched = None
    /\ Len(all_questions) = 3
    /\ \A i \in 1..3 : /\ all_questions[i].date = "2024-02-20"
                       /\ all_questions[i].question_no = i

(* The latest request has ended; fetch_page's value is in the last entry   *)
(* of fetch_log.                                                           *)
FetchEnded == pc \in {"loop", "done"} /\ responses # <<>>
LastFetched == fetch_log[Len(fetch_log)].fetched

IsRetryableStatus(answer) ==
    answer.kind = "response" /\ answer.status \in {429, 500, 502, 503, 504}

(* C10: when every attempt is answered by a retryable status, the request  *)
(* ends after MAX_RETRIES attempts or one more and fetch_page gives None;  *)
(* an attempt answered 200 is the last one and fetch_page gives its page.  *)
C10_RetryBound ==
    /\ Len(responses) <= MAX_RETRIES + 1
    /\ (FetchEnded /\ \A k \in 1..Len(responses) : IsRetryableStatus(responses[k]))
       => /\ Len(responses) \in {MAX_RETRIES, MAX_RETRIES + 1}
          /\ LastFetched = None
    /\ \A k \in 1..Len(responses) :
         responses[k].status = 200
         => /\ k = Len(responses)
            /\ FetchEnded
            /\ LastFetched = responses[k].page

C10_Witness ==
    /\ FetchEnded
    /\ Len(responses) = MAX_RETRIES + 1
    /\ \A k \in 1..Len(responses) : IsRetryableStatus(responses[k])
    /\ {responses[k].status : k \in 1..Len(responses)} = {429, 503}
    /\ LastFetched = None

(* C11: a request that ends in failure (retries exhausted, timeout or      *)
(* connection error, refused URL, a 4xx or 5xx status) makes fetch_page    *)
(* return None; nothing is raised to the driver, which goes on.            *)
FailedAnswer(answer) == answer.kind # "response" \/ answer.status >= 400

C11_FetchFailureGivesNone ==
    /\ pc # "raised"
    /\ (responses # <<>> /\ pc # "fetch" /\ FailedAnswer(responses[Len(responses)]))
       => /\ pc \in {"loop", "done"}
          /\ fetch_log # <<>>
          /\ LastFetched = None
          /\ date_pos = Len(fetch_log) + 1

C11_Witness ==
    /\ pc = "loop"
    /\ Len(fetch_log) = 2
    /\ fetch_log[1].fetched = None
    /\ Len(responses) = MAX_RETRIES + 1
    /\ responses[Len(responses)].exc = "ConnectTimeout"
    /\ LastFetched = None

(* Other failures of C11 that are reached: a 404 and a refused URL.        *)
C11_ClientErrorGivesNone ==
    /\ FetchEnded
    /\ responses[Len(responses)].status = 404
    /\ LastFetched = None

C11_RejectedUrlGivesNone ==
    /\ FetchEnded
    /\ responses[Len(responses)].kind = "rejected"
    /\ LastFetched = None

(* The records a finished date may add, counted without the banner test   *)
(* of the model: none for None or for the page with the "Page Not Found"   *)
(* banner.                                                                 *)
HasNotFoundBanner(page) == page.alert = Some("Page Not Found")

RecordCount(entry) ==
    IF entry.fetched = None \/ HasNotFoundBanner(entry.fetched[1]) THEN 0
    ELSE Len(extract_questions(entry.fetched[1]).value)

RECURSIVE TotalRecordCount(_)
TotalRecordCount(log) ==
    IF log = <<>> THEN 0
    ELSE TotalRecordCount(SubSeq(log, 1, Len(log) - 1)) + RecordCount(log[Len(log)])

(* C12: a fetched page with the not-found banner is treated as Absent: the *)
(* extractor is not run on it, the date adds no record, nothing is raised  *)
(* and the driver goes on with the next date.                              *)
C12_NotFoundPageIsAbsent ==
    /\ pc # "raised"
    /\ \A i \in 1..Len(fetch_log) :
         (fetch_log[i].fetched # None /\ HasNotFoundBanner(fetch_log[i].fetched[1]))
         => ~fetch_log[i].extracted
    /\ pc \in {"loop", "done"} =>
         /\ Len(all_questions) = TotalRecordCount(fetch_log)
         /\ date_pos = Len(fetch_log) + 1
    /\ Done => Len(fetch_log) = Len(dates)

C12_Witness ==
    /\ Done
    /\ Len(fetch_log) = 2
    /\ fetch_log[1].fetched = Some(PageNotFound)
    /\ ~fetch_log[1].extracted
    /\ fetch_log[2].fetched = Some(PageThree)
    /\ Len(all_questions) = 3

(* C13: between two successive date fetches the politeness delay elapses:  *)
(* every date that is followed by another fetch ended with time.sleep(1).  *)
C13_DelayBetweenFetches ==
    \A i \in 1..Len(fetch_log) :
        (i < Len(fetch_log) \/ pc = "fetch") => fetch_log[i].slept

(* The second case of C10: 503, then 200 on the second attempt.            *)
C10_SecondAttemptSucceeds ==
    /\ FetchEnded
    /\ Len(responses) = 2
    /\ responses[1].status = 503
    /\ responses[2].status = 200
    /\ LastFetched = Some(PageThree)

----------------------------------------------------------------------------
(* Properties of extract_questions, stated on the page and on the list it  *)
(* returned (checked under SpecExtract).                                   *)

Extracted == pc = "extracted"
Page == soup[1]
Returned == outcome # None /\ outcome[1].kind = "return"
Records == outcome[1].value

(* The record a block gave, found by the position stored in question_no.   *)
RecordsOf(i) == {j \in 1..Len(Records) : Records[j].question_no = i}

(* Zero-based position of an answer letter: A=0, B=1, ...                  *)
LetterPosition == [c \in {"A", "B", "C", "D", "Z"} |->
                      CASE c = "A" -> 0 [] c = "B" -> 1 [] c = "C" -> 2
                        [] c = "D" -> 3 [] c = "Z" -> 25]

Resolves(token, options) ==
    token \in DOMAIN LetterPosition /\ LetterPosition[token] < Len(options)

HasQuestionText(block) == block.qtxt # None

(* C3: the question_no values of the returned records are exactly 1..N,   *)
(* N the number of records returned.                                       *)
C3_NumbersAreOneToN ==
    Extracted =>
        /\ Returned
        /\ {Records[j].question_no : j \in 1..Len(Records)} = 1..Len(Records)

(* C4: every returned record has a non-empty question text.                *)
C4_QuestionNeverEmpty ==
    Extracted =>
        /\ Returned
        /\ \A j \in 1..Len(Records) : Records[j].question # ""

(* C5: a block whose answer token does not resolve to a position inside    *)
(* its option list still gives a record, whose answer is "Option <token>". *)
C5_UnresolvedTokenFallsBack ==
    Extracted =>
        /\ Returned
        /\ \A i \in 1..Len(Page.blocks) :
             LET block == Page.blocks[i] IN
             (/\ HasQuestionText(block)
              /\ block.ans # None
              /\ ~Resolves(block.ans[1], extract_options(block)))
             => \E j \in RecordsOf(i) : Records[j].answer = "Option " \o block.ans[1]

(* C6: an answer letter L at position i < length(options) is recorded as   *)
(* "Option L: " followed by options[i]; Paris/London/Rome and "B" give     *)
(* "Option B: London".                                                     *)
C6_LetterResolvesToOption ==
    Extracted =>
        /\ Returned
        /\ \A i \in 1..Len(Page.blocks) :
             LET block == Page.blocks[i] IN
             (/\ HasQuestionText(block)
              /\ block.ans # None
              /\ Resolves(block.ans[1], extract_options(block)))
             => /\ RecordsOf(i) # {}
                /\ \A j \in RecordsOf(i) :
                     /\ Records[j].answer =
                            "Option " \o block.ans[1] \o ": "
                            \o Records[j].options[LetterPosition[block.ans[1]] + 1]
                     /\ (Records[j].options = <<"Paris", "London", "Rome">>
                         /\ block.ans[1] = "B")
                        => Records[j].answer = "Option B: London"

C6_Witness ==
    /\ Extracted
    /\ Returned
    /\ \E i \in 1..Len(Page.blocks) :
         /\ HasQuestionText(Page.blocks[i])
         /\ Page.blocks[i].ans = Some("B")
         /\ \E j \in RecordsOf(i) :
              /\ Records[j].options = <<"Paris", "London", "Rome">>
              /\ Records[j].answer = "Option B: London"

(* C7: a block with a question text and no answer input gives a record     *)
(* whose answer is "Not available"; a missing explanation or category (or  *)
(* a category link without an anchor) gives "" in the emitted record.      *)
C7_MissingFieldsDefault ==
    Extracted =>
        /\ Returned
        /\ \A i \in 1..Len(Page.blocks) :
             LET block == Page.blocks[i] IN
             /\ (HasQuestionText(block) /\ block.ans = None)
                => /\ RecordsOf(i) # {}
                   /\ \A j \in RecordsOf(i) : Records[j].answer = "Not available"
             /\ \A j \in RecordsOf(i) :
                  /\ block.exp = None => Records[j].explanation = ""
                  /\ (block.cat = None \/ block.cat = Some(None))
                     => Records[j].category = ""

C7_Witness ==
    /\ Extracted
    /\ Returned
    /\ \E i \in 1..Len(Page.blocks) :
         /\ HasQuestionText(Page.blocks[i])
         /\ Page.blocks[i].ans = None
         /\ Page.blocks[i].exp = None
         /\ Page.blocks[i].cat = None
         /\ \E j \in RecordsOf(i) :
              /\ Records[j].answer = "Not available"
              /\ Records[j].explanation = ""
              /\ Records[j].category = ""

(* C8: on a page without a question container extract_questions returns    *)
(* the empty list and does not raise.                                      *)
C8_NoContainerGivesEmpty ==
    (Extracted /\ Page.blocks = <<>>) => (Returned /\ Records = <<>>)

C8_Witness == Extracted /\ Page.blocks = <<>> /\ Returned /\ Records = <<>>

(* C9: whichever blocks of a page throw, the call returns, and the records *)
(* returned are those of the other blocks that have a question text, in    *)
(* page order.                                                             *)
Throws(block, i) == extract_block(block, i).kind = "raise"

C9_ThrowingBlockSkippedAlone ==
    Extracted =>
        /\ Returned
        /\ \A i \in 1..Len(Page.blocks) :
             (HasQuestionText(Page.blocks[i]) /\ ~Throws(Page.blocks[i], i))
             => \E j \in RecordsOf(i) :
                    Records[j].question = strip(Page.blocks[i].qtxt[1])
        /\ \A j, k \in 1..Len(Records) :
             j < k => Records[j].question_no < Records[k].question_no

C9_Witness ==
    /\ Extracted
    /\ Returned
    /\ Len(Page.blocks) = 2
    /\ Throws(Page.blocks[1], 1)
    /\ HasQuestionText(Page.blocks[2])
    /\ Len(Records) = 1
    /\ Records[1].question_no = 2

----------------------------------------------------------------------------
(* Translation of one question record: DeepTranslatorGU of translator.py   *)
(* and Translator of translations.py.  Dicts and lists live in heap and    *)
(* are named by reference, as Python names them.                           *)
(* The texts of a record are strings, so nothing is raised before the call *)
(* of the service (text.strip() of line 28 is defined); the texts are      *)
(* shorter than the 4500 characters of line 35.                            *)

ScraperIdle ==
    /\ soup = None
    /\ outcome = None
    /\ dates = <<>>
    /\ date_pos = 1
    /\ all_questions = <<>>
    /\ pc = "idle"
    /\ retry_total = 0
    /\ responses = <<>>
    /\ fetch_log = <<>>

TranslatorClasses == {"DeepTranslatorGU", "Translator"}

(* What one call of the translation service does: it raises, or it returns *)
(* the Gujarati text, a text with box characters, the empty string, or     *)
(* nothing.                                                                *)
TranslatorOutcomes == {"raises", "translated", "boxes", "empty", "none"}

(* The collaborator of a run: one whose every call raises, or one whose    *)
(* calls end in any of the outcomes.                                       *)
Collaborators == {"always_raises", "unreliable"}

outcomes_of(kind) ==
    IF kind = "always_raises" THEN {"raises"} ELSE TranslatorOutcomes

gujarati(text) == "gu:" \o text

(* the mark that stands for the characters of box_chars, line 76 *)
BoxCharacter == " <U+25A1>"

boxed(text) == "gu:" \o text \o BoxCharacter

(* the question records handed to translate_question, with the list their  *)
(* 'options' key refers to                                                 *)
TranslateInputs ==
    { [dict |-> [question_no |-> 1, question |-> "Capital of France?",
                 options |-> "l1", answer |-> "Option A: Paris",
                 explanation |-> "It was held in 2024.", category |-> "Sports",
                 date |-> "2024-02-20"],
       list |-> <<"Paris", "Rome">>],
      [dict |-> [question_no |-> 2, question |-> "Who won the cup?",
                 options |-> "l1", answer |-> "Not available",
                 explanation |-> "", category |-> "",
                 date |-> "2024-02-21"],
       list |-> <<>>],
      [dict |-> [question_no |-> 1, question |-> "   ",
                 options |-> "l1", answer |-> "Option ",
                 explanation |-> "", category |-> "Sports",
                 date |-> "2024-02-21"],
       list |-> <<"Paris">>],
      [dict |-> [question_no |-> 3, question |-> "Capital of France?",
                 date |-> "2024-02-20"],
       list |-> <<>>] }

SourceTexts ==
    UNION { {input.dict[key] : key \in DOMAIN input.dict \ {"question_no", "options"}}
            \cup {input.list[i] : i \in 1..Len(input.list)} : input \in TranslateInputs }

(* translator.py lines 73-77: the text carries a box character *)
_has_boxes(text) ==
    \E i \in 1..Len(text) :
        /\ i + Len(BoxCharacter) - 1 <= Len(text)
        /\ SubSeq(text, i, i + Len(BoxCharacter) - 1) = BoxCharacter

(* lines 28, translations.py 18: not text or not text.strip() *)
is_blank(text) == text = "" \/ strip(text) = ""

(* self.translator.translate(text), translator.py line 50 *)
translator_translate(text, reply) ==
    CASE reply = "raises" -> [kind |-> "raise", value |-> None]
      [] reply = "translated" -> [kind |-> "value", value |-> Some(gujarati(text))]
      [] reply = "boxes" -> [kind |-> "value", value |-> Some(boxed(text))]
      [] reply = "empty" -> [kind |-> "value", value |-> Some("")]
      [] reply = "none" -> [kind |-> "value", value |-> None]

max_retries == 3

translate_text_with_retry_gives_up_blank(text, reply, attempt) ==
    LET answer == translator_translate(text, reply)
    IN  IF answer.kind = "raise" \/ answer.value = None
        THEN IF attempt = max_retries - 1
             THEN [kind |-> "return", value |-> "", slept |-> FALSE]
             ELSE [kind |-> "retry", value |-> text, slept |-> TRUE]
        ELSE IF _has_boxes(answer.value[1])
             THEN [kind |-> "return", value |-> text, slept |-> FALSE]
             ELSE [kind |-> "return", value |-> answer.value[1], slept |-> FALSE]

translate_text_with_retry_sleeps_after_last(text, reply, attempt) ==
    LET answer == translator_translate(text, reply)
    IN  IF answer.kind = "raise" \/ answer.value = None
        THEN IF attempt = max_retries - 1
             THEN [kind |-> "return", value |-> text, slept |-> TRUE]
             ELSE [kind |-> "retry", value |-> text, slept |-> TRUE]
        ELSE IF _has_boxes(answer.value[1])
             THEN [kind |-> "return", value |-> text, slept |-> FALSE]
             ELSE [kind |-> "return", value |-> answer.value[1], slept |-> FALSE]

(* translator.py lines 32-68, one pass of the loop on a text that is not   *)
(* blank and not longer than 4500 characters: the call of line 50, the box *)
(* test of line 53 (which raises TypeError on None), the except clause of  *)
(* lines 59-68.                                                            *)
translate_text_with_retry(text, reply, attempt) ==
    LET answer == translator_translate(text, reply)
    IN  IF answer.kind = "raise" \/ answer.value = None
        THEN IF attempt = max_retries - 1
             THEN [kind |-> "return", value |-> text, slept |-> FALSE]
             ELSE [kind |-> "retry", value |-> text, slept |-> TRUE]
        ELSE IF _has_boxes(answer.value[1])
             THEN [kind |-> "return", value |-> text, slept |-> FALSE]
             ELSE [kind |-> "return", value |-> answer.value[1], slept |-> FALSE]

(* translations.py lines 25-43, on a text that is not blank: one call; a   *)
(* falsy result or an exception gives the text back.                       *)
translate(text, reply) ==
    LET answer == translator_translate(text, reply)
    IN  IF answer.kind = "raise" \/ answer.value = None
        THEN [kind |-> "return", value |-> text, slept |-> FALSE]
        ELSE [kind |-> "return", value |-> answer.value[1], slept |-> FALSE]

(* dict.copy(): a new dict holding the same values, so the same list *)
copy_returns_same_dict(h, ref, new) == [heap |-> h, ref |-> ref]

copy(h, ref, new) == [heap |-> h @@ (new :> h[ref]), ref |-> new]

(* d[key] = value *)
setitem(h, ref, key, value) == [h EXCEPT ![ref][key] = value]

(* [] : a new, empty list *)
new_list(h, new) == h @@ (new :> <<>>)

(* lst.append(value) *)
append(h, ref, value) == [h EXCEPT ![ref] = Append(@, value)]

(* The text a step of translate_question translates: question[key], or the *)
(* next item of the list being iterated.                                   *)
current_text(h, t) ==
    IF t.pc = "option" THEN h[t.iter][t.k] ELSE h[t.question][t.pc]

(* A variant that appends an option only when it was translated. *)
store_skips_untranslated_option(h, t, value) ==
    IF t.pc = "option"
    THEN IF value = h[t.iter][t.k] THEN h
         ELSE append(h, h[t.translated].options, value)
    ELSE setitem(h, t.translated, t.pc, value)

(* translated[key] = ... (lines 87, 106, 114, 122) or                       *)
(* translated['options'].append(...) (line 98)                             *)
store(h, t, value) ==
    IF t.pc = "option"
    THEN append(h, h[t.translated].options, value)
    ELSE setitem(h, t.translated, t.pc, value)

(* the statement after the one that translated a text *)
after(t) ==
    CASE t.pc = "question" -> [t EXCEPT !.pc = "options"]
      [] t.pc = "option" -> [t EXCEPT !.k = @ + 1]
      [] t.pc = "answer" -> [t EXCEPT !.pc = "explanation"]
      [] t.pc = "explanation" -> [t EXCEPT !.pc = "category"]
      [] t.pc = "category" -> [t EXCEPT !.pc = "return"]

(* whether the class translates question[key] when it holds a falsy value: *)
(* translator.py lines 112, 120 test it, translations.py lines 57, 60 do   *)
(* not                                                                     *)
skips_falsy(t) ==
    t.class = "DeepTranslatorGU" /\ t.pc \in {"explanation", "category"}

RECURSIVE run(_, _)
(* translate_question from the statement t.pc on, up to the next call of   *)
(* the translation service or to the return: the key tests, the new list   *)
(* of line 95, the loop of line 96, and the texts given back untranslated  *)
(* because they are blank (line 28, translations.py line 18).              *)
run(h, t) ==
    LET text_step ==
            IF is_blank(current_text(h, t))
            THEN run(store(h, t, current_text(h, t)), after(t))
            ELSE [heap |-> h, tq |-> [t EXCEPT !.attempt = 0]]
    IN  CASE t.pc = "options" ->
               IF "options" \in DOMAIN h[t.question]
               THEN LET h2 == setitem(new_list(h, "l2"), t.translated, "options", "l2")
                    IN  run(h2, [t EXCEPT !.pc = "option",
                                          !.iter = h2[t.question].options,
                                          !.k = 1])
               ELSE run(h, [t EXCEPT !.pc = "answer"])
          [] t.pc = "option" ->
               IF t.k > Len(h[t.iter])
               THEN run(h, [t EXCEPT !.pc = "answer"])
               ELSE text_step
          [] t.pc \in {"question", "answer", "explanation", "category"} ->
               IF /\ t.pc \in DOMAIN h[t.question]
                  /\ ~(skips_falsy(t) /\ h[t.question][t.pc] = "")
               THEN text_step
               ELSE run(h, after(t))
          [] t.pc = "return" ->
               [heap |-> h, tq |-> [t EXCEPT !.pc = "returned"]]

(* one call of the service on the current text, by the class's method *)
attempt_of(t, text, reply) ==
    IF t.class = "DeepTranslatorGU"
    THEN translate_text_with_retry(text, reply, t.attempt)
    ELSE translate(text, reply)

InitTranslate ==
    /\ ScraperIdle
    /\ MainIdle
    /\ collaborator \in Collaborators
    /\ \E input \in TranslateInputs, class \in TranslatorClasses :
          /\ heap = ("d1" :> input.dict) @@ ("l1" :> input.list)
          /\ t_input = Some(input)
          /\ tq = [IdleLocals EXCEPT !.pc = "call", !.class = class,
                                     !.question = "d1"]
    /\ t_return = None
    /\ rt = RetryIdle
    /\ ta = BatchIdle

(* translator.py lines 79-81, translations.py lines 45-46: the call and    *)
(* the copy, then on to the first call of the service.                     *)
CallTranslateQuestion ==
    /\ tq.pc = "call"
    /\ LET copied == copy(heap, tq.question, "d2")
           reached == run(copied.heap, [tq EXCEPT !.pc = "question",
                                                  !.translated = copied.ref])
       IN  /\ heap' = reached.heap
           /\ tq' = reached.tq
           /\ t_return' = IF reached.tq.pc = "returned"
                          THEN Some(reached.tq.translated) ELSE None
    /\ UNCHANGED <<collaborator, t_input, rt, ta>>
    /\ UNCHANGED <<scraper_vars, main_vars>>

InService ==
    tq.pc \in {"question", "option", "answer", "explanation", "category"}

(* The service answers a call: the attempt fails and the text is tried     *)
(* again after time.sleep(1) (translator.py line 68), or the text is done, *)
(* its result is stored and translate_question runs on.                    *)
ServiceAnswers(reply) ==
    /\ InService
    /\ LET text == current_text(heap, tq)
           result == attempt_of(tq, text, reply)
           called == [tq EXCEPT !.calls = @ + 1,
                                !.sleeps = IF result.slept THEN @ + 1 ELSE @]
       IN  IF result.kind = "retry"
           THEN /\ tq' = [called EXCEPT !.attempt = @ + 1]
                /\ UNCHANGED <<heap, t_return>>
           ELSE IF result.kind = "raise"
           THEN \* translator.py lines 129-131 catch it and return question;
                \* translations.py lines 45-63 have no handler
                IF tq.class = "DeepTranslatorGU"
                THEN /\ tq' = [called EXCEPT !.pc = "returned"]
                     /\ t_return' = Some(tq.question)
                     /\ UNCHANGED heap
                ELSE /\ tq' = [called EXCEPT !.pc = "raised"]
                     /\ UNCHANGED <<heap, t_return>>
           ELSE LET reached == run(store(heap, called, result.value), after(called))
                IN  /\ heap' = reached.heap
                    /\ tq' = reached.tq
                    /\ t_return' = IF reached.tq.pc = "returned"
                                   THEN Some(reached.tq.translated) ELSE None
    /\ UNCHANGED <<collaborator, t_input, rt, ta>>
    /\ UNCHANGED <<scraper_vars, main_vars>>

ServiceRaises == \E reply \in outcomes_of(collaborator) \cap {"raises"} : ServiceAnswers(reply)

ServiceReturns == \E reply \in outcomes_of(collaborator) \ {"raises"} : ServiceAnswers(reply)

NextTranslate == CallTranslateQuestion \/ ServiceRaises \/ ServiceReturns

SpecTranslate == InitTranslate /\ [][NextTranslate]_vars

----------------------------------------------------------------------------
(* Properties of translate_question.                                       *)

TranslateReturned == tq.pc = "returned" /\ t_return # None

Argument == t_input[1]

ResultDict == heap[t_return[1]]

(* C14: with a collaborator whose every call raises, translate_question    *)
(* returns a record with the keys of its argument and, under each key, the *)
(* value the argument had, the options item by item; nothing is raised out *)
(* of it.                                                                  *)
C14_AlwaysRaisingGivesInputBack ==
    /\ tq.pc # "raised"
    /\ (collaborator = "always_raises" /\ tq.pc = "returned") =>
          /\ t_return # None
          /\ DOMAIN ResultDict = DOMAIN Argument.dict
          /\ \A key \in DOMAIN Argument.dict \ {"options"} :
                ResultDict[key] = Argument.dict[key]
          /\ "options" \in DOMAIN Argument.dict =>
                heap[ResultDict.options] = Argument.list

C14_Witness ==
    /\ collaborator = "always_raises"
    /\ TranslateReturned
    /\ tq.class = "DeepTranslatorGU"
    /\ Argument.dict.question_no = 1
    /\ Argument.list = <<"Paris", "Rome">>
    /\ tq.calls = 6 * max_retries
    /\ heap[ResultDict.options] = <<"Paris", "Rome">>
    /\ ResultDict.answer = "Option A: Paris"

(* C15: translate_question leaves its argument and the argument's option   *)
(* list as they were, at every step and at the return; the record returned *)
(* is another dict with another option list, it has every key of the       *)
(* argument, and its question_no and date are the argument's.              *)
C15_InputUntouchedNewRecord ==
    t_input # None =>
        /\ heap["d1"] = Argument.dict
        /\ heap["l1"] = Argument.list
        /\ tq.pc = "returned" =>
              /\ t_return # None
              /\ t_return # Some("d1")
              /\ DOMAIN Argument.dict \subseteq DOMAIN ResultDict
              /\ ResultDict.question_no = Argument.dict.question_no
              /\ ResultDict.date = Argument.dict.date
              /\ "options" \in DOMAIN Argument.dict => ResultDict.options # "l1"

C15_Witness ==
    /\ TranslateReturned
    /\ Argument.dict.question_no = 1
    /\ Argument.list = <<"Paris", "Rome">>
    /\ ResultDict.question = gujarati("Capital of France?")
    /\ heap[ResultDict.options] = <<gujarati("Paris"), "Rome">>
    /\ ResultDict.date = "2024-02-20"
    /\ heap["d1"].question = "Capital of France?"
    /\ heap["l1"] = <<"Paris", "Rome">>

----------------------------------------------------------------------------
(* The two entry points: main() of IndiaBix/main.py with the exit of its   *)
(* lines 121-123, and main() of main.py with its lines 88-89.  main.py     *)
(* works on the dictionary of lists, one per source, that its line 29 says *)
(* scrape_weekly_questions returns; that scraper, QuestionTranslator and   *)
(* PDFGenerator.generate are not among the sources and are taken by their  *)
(* outcomes.                                                               *)

Programs == {"IndiaBix/main.py", "main.py"}

line(stream, text) == [stream |-> stream, text |-> text]

(* Python truth of a value that is None or False (both <<>> here) or a     *)
(* non-empty string                                                        *)
truthy(value) == value # None

(* a or b *)
python_or(a, b) == IF truthy(a) THEN a ELSE b

(* a and b *)
python_and(a, b) == IF truthy(a) THEN b ELSE a

(* IndiaBix/main.py line 123: sys.exit(0 if success else 1) *)
exit_code(success) == IF truthy(success) THEN 0 ELSE 1

(* what scrape_weekly_questions gives main: the records of a date, or an   *)
(* exception that fetch_page does not catch (line 49, BeautifulSoup        *)
(* without its parser)                                                     *)
WeeklyResults ==
    {scrape_date_wise(d, f).value :
        d \in DateSet, f \in {None} \cup {Some(p) : p \in SitePages}}

ScrapeOutcomes ==
    {[kind |-> "value", value |-> l, exc |-> ""] : l \in WeeklyResults}
    \cup {[kind |-> "raise", value |-> <<>>, exc |-> "FeatureNotFound"]}

(* os.makedirs(output_dir, exist_ok=True), pdf_generator.py line 19,       *)
(* pdf_generator_compact.py line 30, main.py lines 39-40                   *)
makedirs(ok) ==
    IF ok THEN [kind |-> "return", exc |-> ""]
    ELSE [kind |-> "raise", exc |-> "PermissionError"]

(* what WeasyPrint does inside generate_pdf *)
RenderOutcomes == {"written", "raises"}

DetailedPath == "output/current_affairs_detailed_20240221_060000.pdf"

CompactPath == "output/current_affairs_compact_20240221_060000.pdf"

generate_pdf_propagates(qs, render) ==
    IF render = "written"
    THEN [kind |-> "return", value |-> Some(DetailedPath), files |-> {DetailedPath},
          exc |-> ""]
    ELSE [kind |-> "raise", value |-> None, files |-> {}, exc |-> "OSError"]

(* PDFGenerator.generate_pdf, pdf_generator.py lines 21-224: the path, or  *)
(* None when anything inside raised                                        *)
generate_pdf(qs, render) ==
    IF render = "written"
    THEN [kind |-> "return", value |-> Some(DetailedPath), files |-> {DetailedPath},
          exc |-> ""]
    ELSE [kind |-> "return", value |-> None, files |-> {}, exc |-> ""]

(* PDFGeneratorCompact.generate_pdf, pdf_generator_compact.py lines 33-68 *)
generate_pdf_compact(qs, render) ==
    IF qs = <<>> THEN [kind |-> "return", value |-> None, files |-> {}, exc |-> ""]
    ELSE IF render = "written"
    THEN [kind |-> "return", value |-> Some(CompactPath), files |-> {CompactPath},
          exc |-> ""]
    ELSE [kind |-> "return", value |-> None, files |-> {}, exc |-> ""]

main_except_exits_zero(prog, exc) == [console |-> <<>>, exit_status |-> 0]

(* IndiaBix/main.py lines 115-118 with 121-123 (main returns False), and   *)
(* main.py lines 84-86                                                     *)
main_except(prog, exc) ==
    IF prog = "IndiaBix/main.py"
    THEN [console |-> <<line("logger.error", "Error: " \o exc),
                        line("print", "Error: " \o exc)>>,
          exit_status |-> exit_code(None)]
    ELSE [console |-> <<line("logging.error",
                             "An error occurred in main execution: " \o exc)>>,
          exit_status |-> 1]

(* the process ends in main's handler *)
Handled(exc) ==
    LET handled == main_except(program, exc)
    IN  /\ failure' = Some(exc)
        /\ console' = console \o handled.console
        /\ exit_status' = Some(handled.exit_status)
        /\ main_pc' = "exited"

InitMain ==
    /\ ScraperIdle
    /\ TranslateIdle
    /\ program \in Programs
    /\ main_pc = "start"
    /\ output_dir_ok \in BOOLEAN
    /\ main_questions = <<>>
    /\ scraped_data_map = <<>>
    /\ pdf_path_detailed = None
    /\ pdf_path_compact = None
    /\ invoked = <<>>
    /\ console = <<>>
    /\ files = {}
    /\ source_idx = 1
    /\ failure = None
    /\ exit_status = None

(* IndiaBix/main.py lines 30-46 *)
ScrapeWeekly ==
    /\ program = "IndiaBix/main.py"
    /\ main_pc = "start"
    /\ invoked' = Append(invoked, "scrape_weekly_questions")
    /\ \E result \in ScrapeOutcomes :
          IF result.kind = "raise"
          THEN /\ Handled(result.exc)
               /\ UNCHANGED main_questions
          ELSE IF result.value = <<>>
          THEN /\ main_questions' = result.value
               /\ console' = Append(console, line("print", "No questions found"))
               /\ exit_status' = Some(exit_code(None))
               /\ main_pc' = "exited"
               /\ UNCHANGED failure
          ELSE /\ main_questions' = result.value
               /\ console' = console \o
                     <<line("logger.info", "Scraped " \o decimal(Len(result.value))
                                            \o " questions"),
                       line("print", "Scraped " \o decimal(Len(result.value))
                                      \o " questions")>>
               /\ main_pc' = "scraped"
               /\ UNCHANGED <<failure, exit_status>>
    /\ UNCHANGED <<program, output_dir_ok, scraped_data_map, pdf_path_detailed,
                   pdf_path_compact, files, source_idx>>
    /\ UNCHANGED <<scraper_vars, translate_vars>>

(* IndiaBix/main.py lines 48-57: the translation, then the watermark *)
TranslateWithAI ==
    /\ main_pc = "scraped"
    /\ invoked' = Append(invoked, "translate_questions_with_ai")
    /\ \E watermark \in BOOLEAN :
          console' = Append(console,
              line("print", IF watermark THEN "Watermark loaded"
                            ELSE "WARNING: Watermark not found"))
    /\ main_pc' = "translated"
    /\ UNCHANGED <<program, output_dir_ok, main_questions, scraped_data_map,
                   pdf_path_detailed, pdf_path_compact, files, source_idx,
                   failure, exit_status>>
    /\ UNCHANGED <<scraper_vars, translate_vars>>

(* IndiaBix/main.py lines 89-111: the lines printed after both renderings *)
report(detailed, compact, total) ==
    <<line("print", "SUCCESS! BOTH PDFs GENERATED"),
      line("print", IF truthy(detailed) THEN "PDF 1 (Detailed): " \o detailed[1]
                    ELSE "PDF 1 (Detailed): FAILED"),
      line("print", IF truthy(compact) THEN "PDF 2 (Compact): " \o compact[1]
                    ELSE "PDF 2 (Compact): FAILED"),
      line("print", "Total questions: " \o decimal(total))>>

(* IndiaBix/main.py lines 59-72: PDFGenerator(...) and its generate_pdf *)
RenderDetailed ==
    /\ main_pc = "translated"
    /\ \E render \in RenderOutcomes :
          LET made == makedirs(output_dir_ok)
              rendered == generate_pdf(main_questions, render)
          IN  IF made.kind = "raise"
              THEN /\ Handled(made.exc)
                   /\ UNCHANGED <<pdf_path_detailed, files, invoked>>
              ELSE IF rendered.kind = "raise"
              THEN /\ Handled(rendered.exc)
                   /\ invoked' = Append(invoked, "PDFGenerator.generate_pdf")
                   /\ UNCHANGED <<pdf_path_detailed, files>>
              ELSE /\ invoked' = Append(invoked, "PDFGenerator.generate_pdf")
                   /\ pdf_path_detailed' = rendered.value
                   /\ files' = files \cup rendered.files
                   /\ console' = Append(console,
                         IF truthy(rendered.value)
                         THEN line("print", "Detailed PDF created: " \o rendered.value[1])
                         ELSE line("logger.error", "Error generating PDF"))
                   /\ main_pc' = "detailed"
                   /\ UNCHANGED <<failure, exit_status>>
    /\ UNCHANGED <<program, output_dir_ok, main_questions, scraped_data_map,
                   pdf_path_compact, source_idx>>
    /\ UNCHANGED <<scraper_vars, translate_vars>>

(* IndiaBix/main.py lines 74-113 and 121-123: PDFGeneratorCompact(...), its *)
(* generate_pdf, the report, the return and the exit                       *)
RenderCompact ==
    /\ main_pc = "detailed"
    /\ \E render \in RenderOutcomes :
          LET made == makedirs(output_dir_ok)
              rendered == generate_pdf_compact(main_questions, render)
          IN  IF made.kind = "raise"
              THEN /\ Handled(made.exc)
                   /\ UNCHANGED <<pdf_path_compact, files, invoked>>
              ELSE /\ invoked' = Append(invoked, "PDFGeneratorCompact.generate_pdf")
                   /\ pdf_path_compact' = rendered.value
                   /\ files' = files \cup rendered.files
                   /\ console' = console
                         \o <<IF truthy(rendered.value)
                              THEN line("print", "Compact PDF created: " \o rendered.value[1])
                              ELSE line("logger.error", "Error generating compact PDF")>>
                         \o report(pdf_path_detailed, rendered.value, Len(main_questions))
                   /\ exit_status' =
                         Some(exit_code(python_and(pdf_path_detailed, rendered.value)))
                   /\ main_pc' = "exited"
                   /\ UNCHANGED failure
    /\ UNCHANGED <<program, output_dir_ok, main_questions, scraped_data_map,
                   pdf_path_detailed, source_idx>>
    /\ UNCHANGED <<scraper_vars, translate_vars>>

(* the dictionary main.py line 31 receives, as its items in order *)
SourceNames == <<"indiabix", "gktoday">>

SourceQuestions ==
    scrape_date_wise([year |-> 2024, month |-> 2, day |-> 20], Some(PageGap)).value

DataMaps ==
    {[i \in 1..Len(SourceNames) |-> [source_name |-> SourceNames[i], questions |-> qs[i]]] :
        qs \in [1..Len(SourceNames) -> {<<>>, SourceQuestions}]}

(* any(scraped_data_map.values()), main.py line 34 *)
any_values(data_map) == \E i \in 1..Len(data_map) : data_map[i].questions # <<>>

(* main.py lines 22-40, and 88-89 when main returns at line 36 *)
ScrapeAllSources ==
    /\ program = "main.py"
    /\ main_pc = "start"
    /\ invoked' = Append(invoked, "scrape_weekly_questions")
    /\ \E data_map \in DataMaps :
          /\ scraped_data_map' = data_map
          /\ IF ~any_values(data_map)
             THEN /\ console' = Append(console,
                        line("logging.warning",
                             "No questions found from any source for the given date range. Exiting."))
                  /\ exit_status' = Some(0)
                  /\ main_pc' = "exited"
                  /\ UNCHANGED failure
             ELSE IF makedirs(output_dir_ok).kind = "raise"
             THEN Handled(makedirs(output_dir_ok).exc)
             ELSE /\ main_pc' = "sources"
                  /\ UNCHANGED <<console, failure, exit_status>>
    /\ UNCHANGED <<program, output_dir_ok, main_questions, pdf_path_detailed,
                   pdf_path_compact, files, source_idx>>
    /\ UNCHANGED <<scraper_vars, translate_vars>>

(* main.py lines 43-82, one pass of the loop: the JSON file, the           *)
(* translation and the PDF of a source, each in its own try; after the     *)
(* last source main returns and the process ends (lines 82, 88-89).        *)
ProcessSource ==
    /\ main_pc = "sources"
    /\ LET item == scraped_data_map[source_idx]
           last == source_idx = Len(scraped_data_map)
           done == IF last
                   THEN <<line("logging.info", "=== Job Completed Successfully ===")>>
                   ELSE <<>>
           json_path == "output/" \o item.source_name \o "_Data.json"
           pdf_path == "output/" \o item.source_name \o "_Current_Affairs.pdf"
       IN  /\ IF item.questions = <<>>
              THEN /\ console' = console
                        \o <<line("logging.warning", "Skipping " \o item.source_name)>>
                        \o done
                   /\ UNCHANGED <<files, invoked>>
              ELSE \E saved \in BOOLEAN, translated \in BOOLEAN, rendered \in BOOLEAN :
                   /\ console' = console
                        \o <<IF saved THEN line("logging.info", "JSON saved: " \o json_path)
                             ELSE line("logging.error", "Failed to save JSON for "
                                                         \o item.source_name)>>
                        \o (IF translated THEN <<>>
                            ELSE <<line("logging.error", "Translation failed for "
                                                          \o item.source_name)>>)
                        \o <<IF rendered THEN line("logging.info", "PDF saved: " \o pdf_path)
                             ELSE line("logging.error", "PDF generation failed for "
                                                         \o item.source_name)>>
                        \o done
                   /\ files' = files \cup (IF saved THEN {json_path} ELSE {})
                                     \cup (IF rendered THEN {pdf_path} ELSE {})
                   /\ invoked' = invoked \o <<"QuestionTranslator.translate_questions",
                                              "PDFGenerator.generate">>
           /\ source_idx' = source_idx + 1
           /\ main_pc' = IF last THEN "exited" ELSE "sources"
           /\ exit_status' = IF last THEN Some(0) ELSE None
    /\ UNCHANGED <<program, output_dir_ok, main_questions, scraped_data_map,
                   pdf_path_detailed, pdf_path_compact, failure>>
    /\ UNCHANGED <<scraper_vars, translate_vars>>

NextMain ==
    \/ ScrapeWeekly
    \/ TranslateWithAI
    \/ RenderDetailed
    \/ RenderCompact
    \/ ScrapeAllSources
    \/ ProcessSource

SpecMain == InitMain /\ [][NextMain]_vars

----------------------------------------------------------------------------
(* Properties of the entry points.                                         *)

Exited == main_pc = "exited"

Invoked(name) == \E i \in 1..Len(invoked) : invoked[i] = name

Printed(text) == \E i \in 1..Len(console) : console[i].text = text

(* the scrape returned, and no date or source gave a record *)
ZeroRecordsRun ==
    /\ failure = None
    /\ \/ program = "IndiaBix/main.py" /\ main_pc # "start" /\ main_questions = <<>>
       \/ program = "main.py" /\ scraped_data_map # <<>> /\ ~any_values(scraped_data_map)

NoContentReported ==
    \/ Printed("No questions found")
    \/ Printed("No questions found from any source for the given date range. Exiting.")

(* C16: a run whose scrape gives no record at all has ended, has called    *)
(* neither the translation nor a rendering, has written no file, has       *)
(* reported that nothing was found, and has a non-zero exit status.        *)
C16_ZeroRecordsRunFails ==
    ZeroRecordsRun =>
        /\ Exited
        /\ invoked = <<"scrape_weekly_questions">>
        /\ files = {}
        /\ NoContentReported
        /\ exit_status # None
        /\ exit_status # Some(0)

(* the same for IndiaBix/main.py alone, where it holds *)
C16_IndiaBixZeroRecordsRunFails ==
    program = "IndiaBix/main.py" => C16_ZeroRecordsRunFails

C16_IndiaBixWitness ==
    /\ program = "IndiaBix/main.py"
    /\ ZeroRecordsRun
    /\ Exited
    /\ exit_status = Some(1)

(* C17: in IndiaBix/main.py a rendering that fails raises nothing into     *)
(* main; once the detailed rendering has been called the run ends with the *)
(* compact one called too, and for each of the two the run either holds    *)
(* its path, with the file written and the path reported, or holds None    *)
(* and has reported it as FAILED.                                          *)
C17_RenderingFailureConfined ==
    program = "IndiaBix/main.py" =>
        /\ Invoked("PDFGenerator.generate_pdf") => failure = None
        /\ (Exited /\ Invoked("PDFGenerator.generate_pdf")) =>
              /\ Invoked("PDFGeneratorCompact.generate_pdf")
              /\ IF pdf_path_detailed = None
                 THEN Printed("PDF 1 (Detailed): FAILED")
                 ELSE /\ pdf_path_detailed[1] \in files
                      /\ Printed("PDF 1 (Detailed): " \o pdf_path_detailed[1])
              /\ IF pdf_path_compact = None
                 THEN Printed("PDF 2 (Compact): FAILED")
                 ELSE /\ pdf_path_compact[1] \in files
                      /\ Printed("PDF 2 (Compact): " \o pdf_path_compact[1])

C17_Witness ==
    /\ program = "IndiaBix/main.py"
    /\ Exited
    /\ failure = None
    /\ pdf_path_detailed = None
    /\ pdf_path_compact = Some(CompactPath)
    /\ files = {CompactPath}
    /\ Printed("PDF 1 (Detailed): FAILED")
    /\ Printed("PDF 2 (Compact): " \o CompactPath)

C17_WitnessCompactFails ==
    /\ program = "IndiaBix/main.py"
    /\ Exited
    /\ pdf_path_detailed = Some(DetailedPath)
    /\ pdf_path_compact = None
    /\ files = {DetailedPath}

ErrorLogged(exc) ==
    \E i \in 1..Len(console) :
        /\ console[i].stream \in {"logger.error", "logging.error"}
        /\ console[i].text \in {"Error: " \o exc,
                                "An error occurred in main execution: " \o exc}

(* C18: a run in which an exception reached the handler of main has ended  *)
(* with the exception logged as an error and with a non-zero exit status.  *)
C18_OrchestrationFailureExitsNonZero ==
    failure # None =>
        /\ Exited
        /\ ErrorLogged(failure[1])
        /\ exit_status # None
        /\ exit_status # Some(0)

C18_Witness ==
    /\ program = "IndiaBix/main.py"
    /\ failure = Some("PermissionError")
    /\ Invoked("translate_questions_with_ai")
    /\ Exited
    /\ exit_status = Some(1)
    /\ files = {}

C18_WitnessMainPy ==
    /\ program = "main.py"
    /\ failure = Some("PermissionError")
    /\ Exited
    /\ exit_status = Some(1)

----------------------------------------------------------------------------
(* Numbering across the calls of extract_questions in one run of the       *)
(* driver.                                                                 *)

(* the records of all_questions that the i-th finished date added *)
SegmentOf(i) ==
    LET before == TotalRecordCount(SubSeq(fetch_log, 1, i - 1))
    IN  SubSeq(all_questions, before + 1, before + RecordCount(fetch_log[i]))

(* C19: the records a date added carry question_no values that strictly    *)
(* increase in page order, each the position of the record's block in the  *)
(* page of that date alone; a page whose first block has a question text   *)
(* gives that record the number 1 whatever the earlier dates gave.         *)
C19_NumberingRestartsPerPage ==
    (pc \in {"loop", "done"} /\ Len(all_questions) = TotalRecordCount(fetch_log)) =>
        \A i \in 1..Len(fetch_log) :
            RecordCount(fetch_log[i]) > 0 =>
                LET blocks == fetch_log[i].fetched[1].blocks
                    segment == SegmentOf(i)
                IN  /\ \A j \in 1..Len(segment) :
                          /\ segment[j].question_no \in 1..Len(blocks)
                          /\ HasQuestionText(blocks[segment[j].question_no])
                          /\ segment[j].question
                                = strip(blocks[segment[j].question_no].qtxt[1])
                    /\ \A j, k \in 1..Len(segment) :
                          j < k => segment[j].question_no < segment[k].question_no
                    /\ HasQuestionText(blocks[1]) => segment[1].question_no = 1

C19_Witness ==
    /\ Done
    /\ Len(fetch_log) = 2
    /\ fetch_log[1].fetched = Some(PageThree)
    /\ fetch_log[2].fetched = Some(PageThree)
    /\ Len(all_questions) = 6
    /\ [i \in 1..6 |-> all_questions[i].question_no] = <<1, 2, 3, 1, 2, 3>>

(* the records of all_questions stamped with the date d, without the stamp *)
UndatedOf(d) ==
    LET of_date == SelectSeq(all_questions, LAMBDA r : r.date = IsoDate(d))
    IN  [i \in 1..Len(of_date) |->
            [question_no |-> of_date[i].question_no,
             question |-> of_date[i].question,
             options |-> of_date[i].options,
             answer |-> of_date[i].answer,
             explanation |-> of_date[i].explanation,
             category |-> of_date[i].category]]

(* C20: two calls of extract_questions in one run, for two dates each      *)
(* fetched once whose fetches gave the same page, add the same sequence of *)
(* records, the date stamp apart.                                          *)
FetchedOnce(i) ==
    \A k \in 1..Len(fetch_log) : fetch_log[k].date = fetch_log[i].date => k = i

C20_SamePageSameRecords ==
    \A i, j \in 1..Len(fetch_log) :
        (/\ FetchedOnce(i)
         /\ FetchedOnce(j)
         /\ fetch_log[i].fetched # None
         /\ fetch_log[i].fetched = fetch_log[j].fetched)
        => UndatedOf(fetch_log[i].date) = UndatedOf(fetch_log[j].date)

C20_Witness ==
    /\ Done
    /\ Len(fetch_log) = 2
    /\ dates[1] # dates[2]
    /\ fetch_log[1].fetched = Some(PageThree)
    /\ fetch_log[2].fetched = Some(PageThree)
    /\ Len(UndatedOf(dates[1])) = 3
    /\ UndatedOf(dates[1]) = UndatedOf(dates[2])
    /\ UndatedOf(dates[2])[3].question_no = 3

----------------------------------------------------------------------------
(* translate_text_with_retry of translator.py called on one text, with     *)
(* both of its paths: one call of the service per attempt for a text of at *)
(* most 4500 characters, one call per chunk of 4500 characters for a       *)
(* longer text.  rt.log keeps the replies of the service and the sleeps,   *)
(* in order.                                                               *)

ChunkSize == 4500

Block10 == "0123456789"

Block100 ==
    Block10 \o Block10 \o Block10 \o Block10 \o Block10
    \o Block10 \o Block10 \o Block10 \o Block10 \o Block10

Block500 == Block100 \o Block100 \o Block100 \o Block100 \o Block100

Block4500 ==
    Block500 \o Block500 \o Block500 \o Block500 \o Block500
    \o Block500 \o Block500 \o Block500 \o Block500

(* a text of 4500 characters, the longest translated in one call, and one  *)
(* of 4501, the shortest cut in chunks (two of them)                       *)
LongestUnchunked == Block4500

ShortestChunked == Block4500 \o "."

RetryTexts ==
    {"", "   ", "Capital of France?", LongestUnchunked, ShortestChunked}

(* line 37: [text[i:i+4500] for i in range(0, len(text), 4500)] *)
chunks(text) ==
    LET count == (Len(text) + ChunkSize - 1) \div ChunkSize
    IN  [i \in 1..count |->
            SubSeq(text, (i - 1) * ChunkSize + 1,
                   IF i * ChunkSize < Len(text) THEN i * ChunkSize ELSE Len(text))]

RECURSIVE join(_)
(* ' '.join(translated_chunks), line 48 *)
join(pieces) ==
    IF pieces = <<>> THEN ""
    ELSE IF Len(pieces) = 1 THEN pieces[1]
    ELSE pieces[1] \o " " \o join(Tail(pieces))

(* lines 40-46, one pass of the loop over the chunks: the call, the test   *)
(* of line 43 (_has_boxes raises TypeError on None), the piece appended    *)
translate_chunk(chunk, reply) ==
    LET answer == translator_translate(chunk, reply)
    IN  IF answer.kind = "raise" \/ answer.value = None
        THEN [kind |-> "raise", value |-> chunk]
        ELSE IF _has_boxes(answer.value[1]) \/ answer.value[1] = ""
        THEN [kind |-> "value", value |-> chunk]
        ELSE [kind |-> "value", value |-> answer.value[1]]

(* lines 59-68: what the except clause does with a failed attempt *)
attempt_failed(text, attempt) ==
    IF attempt = max_retries - 1
    THEN [kind |-> "return", value |-> text, slept |-> FALSE]
    ELSE [kind |-> "retry", value |-> text, slept |-> TRUE]

InitRetry ==
    /\ ScraperIdle
    /\ MainIdle
    /\ collaborator \in Collaborators
    /\ heap = <<>>
    /\ tq = IdleLocals
    /\ t_input = None
    /\ t_return = None
    /\ ta = BatchIdle
    /\ \E text \in RetryTexts : rt = [RetryIdle EXCEPT !.pc = "call", !.text = text]

(* lines 26-35: the call, the blank test, the first pass of the loop up to *)
(* the first call of the service                                           *)
CallTranslateText ==
    /\ rt.pc = "call"
    /\ rt' = IF is_blank(rt.text)
             THEN [rt EXCEPT !.pc = "returned", !.result = Some(rt.text)]
             ELSE [rt EXCEPT !.pc = "attempt", !.attempt = 0,
                             !.chunk = IF Len(rt.text) > ChunkSize THEN 1 ELSE 0]
    /\ UNCHANGED <<collaborator, heap, tq, t_input, t_return, ta>>
    /\ UNCHANGED <<scraper_vars, main_vars>>

(* A variant whose loop does not leave on a return: it keeps the value and *)
(* starts the pass again.                                                  *)
ended_without_return(locals, reply, how) ==
    IF how.kind = "retry"
    THEN [locals EXCEPT !.attempt = @ + 1,
                        !.chunk = IF locals.chunk = 0 THEN 0 ELSE 1,
                        !.translated_chunks = <<>>,
                        !.log = @ \o (IF how.slept THEN <<reply, "sleep">>
                                      ELSE <<reply>>)]
    ELSE [locals EXCEPT !.chunk = IF locals.chunk = 0 THEN 0 ELSE 1,
                        !.translated_chunks = <<>>,
                        !.result = Some(how.value)]

(* what the locals become once an attempt has ended *)
ended(locals, reply, how) ==
    IF how.kind = "retry"
    THEN [locals EXCEPT !.attempt = @ + 1,
                        !.chunk = IF locals.chunk = 0 THEN 0 ELSE 1,
                        !.translated_chunks = <<>>,
                        !.log = @ \o (IF how.slept THEN <<reply, "sleep">>
                                      ELSE <<reply>>)]
    ELSE [locals EXCEPT !.pc = "returned",
                        !.result = Some(how.value),
                        !.log = @ \o (IF how.slept THEN <<reply, "sleep">>
                                      ELSE <<reply>>)]

(* The service answers the call of line 50, or that of line 41 for the     *)
(* chunk rt.chunk.                                                         *)
TextServiceAnswers(reply) ==
    /\ rt.pc = "attempt"
    /\ rt' =
          IF rt.chunk = 0
          THEN ended(rt, reply, translate_text_with_retry(rt.text, reply, rt.attempt))
          ELSE LET pieces == chunks(rt.text)
                   piece == translate_chunk(pieces[rt.chunk], reply)
               IN  IF piece.kind = "raise"
                   THEN ended(rt, reply, attempt_failed(rt.text, rt.attempt))
                   ELSE IF rt.chunk < Len(pieces)
                   THEN [rt EXCEPT !.chunk = @ + 1,
                                   !.translated_chunks = Append(@, piece.value),
                                   !.log = Append(@, reply)]
                   ELSE ended([rt EXCEPT !.translated_chunks = Append(@, piece.value)],
                              reply,
                              [kind |-> "return",
                               value |-> join(Append(rt.translated_chunks, piece.value)),
                               slept |-> FALSE])
    /\ UNCHANGED <<collaborator, heap, tq, t_input, t_return, ta>>
    /\ UNCHANGED <<scraper_vars, main_vars>>

TextServiceRaises ==
    \E reply \in outcomes_of(collaborator) \cap {"raises"} : TextServiceAnswers(reply)

TextServiceReturns ==
    \E reply \in outcomes_of(collaborator) \ {"raises"} : TextServiceAnswers(reply)

NextRetry == CallTranslateText \/ TextServiceRaises \/ TextServiceReturns

SpecRetry == InitRetry /\ [][NextRetry]_vars

----------------------------------------------------------------------------
(* Properties of translate_text_with_retry.                                *)

IsCall(event) == event # "sleep"

(* an attempt fails when the service raises, or gives None, on which the   *)
(* box test raises                                                         *)
Failed(event) == event \in {"raises", "none"}

CallsUpTo(log, i) == Cardinality({j \in 1..i : IsCall(log[j])})

TextReturned == rt.pc = "returned"

OnUnchunkedPath ==
    rt.pc \in {"attempt", "returned"} /\ ~is_blank(rt.text) /\ Len(rt.text) <= ChunkSize

(* C22: on a text that is not blank and has at most 4500 characters the    *)
(* service is called at most max_retries times; a call that does not fail  *)
(* is the last event and the function has returned; a failed call that is  *)
(* not the max_retries-th is followed by a sleep and the function goes on, *)
(* the max_retries-th is followed by no sleep and the function has         *)
(* returned the text itself; there is no sleep but after a failed call.    *)
C22_RetryBoundAndWaits ==
    OnUnchunkedPath =>
        /\ CallsUpTo(rt.log, Len(rt.log)) <= max_retries
        /\ \A i \in 1..Len(rt.log) :
              /\ (IsCall(rt.log[i]) /\ ~Failed(rt.log[i])) =>
                    (i = Len(rt.log) /\ TextReturned)
              /\ (Failed(rt.log[i]) /\ CallsUpTo(rt.log, i) < max_retries) =>
                    (i < Len(rt.log) /\ rt.log[i + 1] = "sleep")
              /\ (Failed(rt.log[i]) /\ CallsUpTo(rt.log, i) >= max_retries) =>
                    (i = Len(rt.log) /\ TextReturned /\ rt.result = Some(rt.text))
              /\ rt.log[i] = "sleep" =>
                    (i > 1 /\ Failed(rt.log[i - 1])
                     /\ (i = Len(rt.log) => rt.pc = "attempt"))

C22_Witness ==
    /\ TextReturned
    /\ rt.text = "Capital of France?"
    /\ rt.log = <<"raises", "sleep", "none", "sleep", "raises">>
    /\ rt.result = Some("Capital of France?")

C22_WitnessSecondAttempt ==
    /\ TextReturned
    /\ rt.text = LongestUnchunked
    /\ rt.log = <<"raises", "sleep", "translated">>
    /\ rt.result = Some(gujarati(LongestUnchunked))

(* the replies to the calls of the pass over the chunks that returned *)
LastPassReplies ==
    SubSeq(rt.log, Len(rt.log) - Len(rt.translated_chunks) + 1, Len(rt.log))

ReturnedFromChunks ==
    /\ TextReturned
    /\ rt.chunk > 0
    /\ Len(rt.translated_chunks) = Len(chunks(rt.text))

(* C23: for a text that is not blank the function returns a string that is *)
(* not empty; a reply that is empty or has box characters gives the text   *)
(* back on the path without chunks, and the chunk back on the path with    *)
(* chunks.                                                                 *)
C23_NeverBlankBothPathsAlike ==
    (TextReturned /\ ~is_blank(rt.text)) =>
        /\ rt.result # None
        /\ rt.result # Some("")
        /\ (rt.chunk = 0 /\ rt.log[Len(rt.log)] \in {"empty", "boxes"}) =>
              rt.result = Some(rt.text)
        /\ ReturnedFromChunks =>
              \A i \in 1..Len(rt.translated_chunks) :
                  LastPassReplies[i] \in {"empty", "boxes"} =>
                      rt.translated_chunks[i] = chunks(rt.text)[i]

(* the same for the texts longer than 4500 characters alone, where it holds *)
C23_ChunkedPathKeepsChunk ==
    Len(rt.text) > ChunkSize => C23_NeverBlankBothPathsAlike

C23_ChunkedWitness ==
    /\ ReturnedFromChunks
    /\ rt.text = ShortestChunked
    /\ LastPassReplies = <<"empty", "translated">>
    /\ rt.result = Some(Block4500 \o " " \o gujarati("."))

(* the same with a reply that has box characters on the path without       *)
(* chunks, where it holds                                                  *)
C23_BoxesKeepText ==
    (TextReturned /\ rt.chunk = 0 /\ rt.log # <<>> /\ rt.log[Len(rt.log)] = "boxes") =>
        rt.result = Some(rt.text)

----------------------------------------------------------------------------
(* translate_all of translator.py, lines 133-155: the loop that calls      *)
(* translate_question on every record of a list.  The heap holds the       *)
(* record under translation; the records already translated are kept by    *)
(* value in ta.translated_questions.                                       *)

MaxBatch == 2

BatchInputs ==
    { [dict |-> [question_no |-> 1, question |-> "   ", options |-> "l1",
                 date |-> "2024-02-20"],
       list |-> <<"Paris", "Rome">>],
      [dict |-> [question_no |-> 2, question |-> "Who won the cup?",
                 options |-> "l1", answer |-> "",
                 date |-> "2024-02-20"],
       list |-> <<>>],
      [dict |-> [question_no |-> 3, question |-> "Capital of France?",
                 date |-> "2024-02-21"],
       list |-> <<>>] }

(* the record translate_question returned, by value *)
returned_record ==
    LET dict == heap[t_return[1]]
    IN  [dict |-> dict,
         list |-> IF "options" \in DOMAIN dict THEN heap[dict.options] ELSE <<>>]

(* translate_question(question, i) is about to be called, lines 145-148 *)
load(question) ==
    /\ heap' = ("d1" :> question.dict) @@ ("l1" :> question.list)
    /\ t_input' = Some(question)
    /\ tq' = [IdleLocals EXCEPT !.pc = "call", !.class = "DeepTranslatorGU",
                                !.question = "d1"]
    /\ t_return' = None

InitTranslateAll ==
    /\ ScraperIdle
    /\ MainIdle
    /\ collaborator \in Collaborators
    /\ heap = <<>>
    /\ tq = IdleLocals
    /\ t_input = None
    /\ t_return = None
    /\ rt = RetryIdle
    /\ \E questions \in SeqsUpTo(BatchInputs, MaxBatch), available \in BOOLEAN :
          ta = [BatchIdle EXCEPT !.pc = "call", !.available = available,
                                 !.questions = questions]

(* lines 133-145: without a translator the argument is returned; the loop  *)
(* starts with the first record, or ends at once on an empty list.         *)
CallTranslateAll ==
    /\ ta.pc = "call"
    /\ IF ~ta.available \/ ta.questions = <<>>
       THEN /\ ta' = [ta EXCEPT !.pc = "returned", !.result = Some(ta.questions)]
            /\ UNCHANGED <<heap, tq, t_input, t_return>>
       ELSE /\ ta' = [ta EXCEPT !.pc = "loop", !.i = 1]
            /\ load(ta.questions[1])
    /\ UNCHANGED <<collaborator, rt>>
    /\ UNCHANGED <<scraper_vars, main_vars>>

(* lines 148-155: the record returned is appended, time.sleep(1.5), and    *)
(* the loop goes on with the next record or the list is returned.          *)
QuestionTranslated ==
    /\ ta.pc = "loop"
    /\ tq.pc = "returned"
    /\ LET translated_questions == Append(ta.translated_questions, returned_record)
       IN  IF ta.i < Len(ta.questions)
           THEN /\ ta' = [ta EXCEPT !.i = @ + 1,
                                    !.translated_questions = translated_questions]
                /\ load(ta.questions[ta.i + 1])
           ELSE /\ ta' = [ta EXCEPT !.pc = "returned",
                                    !.translated_questions = translated_questions,
                                    !.result = Some(translated_questions)]
                /\ UNCHANGED <<heap, tq, t_input, t_return>>
    /\ UNCHANGED <<collaborator, rt>>
    /\ UNCHANGED <<scraper_vars, main_vars>>

NextTranslateAll ==
    \/ CallTranslateAll
    \/ CallTranslateQuestion
    \/ ServiceRaises
    \/ ServiceReturns
    \/ QuestionTranslated

SpecTranslateAll == InitTranslateAll /\ [][NextTranslateAll]_vars

----------------------------------------------------------------------------
(* Properties of translate_all.                                            *)

(* what translate_text_with_retry can give for a text: the text, its       *)
(* translation, or the empty reply of the service                          *)
TranslationsOf(text) == {text, gujarati(text), ""}

IsTranslationOf(out, in) ==
    /\ DOMAIN out.dict = DOMAIN in.dict
    /\ out.dict.question_no = in.dict.question_no
    /\ out.dict.date = in.dict.date
    /\ out.dict.question \in TranslationsOf(in.dict.question)
    /\ Len(out.list) = Len(in.list)
    /\ \A j \in 1..Len(in.list) : out.list[j] \in TranslationsOf(in.list[j])

(* C24: translate_all returns a list as long as its argument whose i-th    *)
(* record has the keys, the question_no and the date of the i-th record of *)
(* the argument, a question that is a translation of its question, and as  *)
(* many options, the j-th a translation of its j-th option; while the loop *)
(* runs, the records collected are those before the one under translation. *)
C24_BatchShapePreserved ==
    /\ ta.pc = "loop" => Len(ta.translated_questions) = ta.i - 1
    /\ ta.pc = "returned" =>
          /\ ta.result # None
          /\ Len(ta.result[1]) = Len(ta.questions)
          /\ \A i \in 1..Len(ta.questions) :
                IsTranslationOf(ta.result[1][i], ta.questions[i])

C24_Witness ==
    /\ ta.pc = "returned"
    /\ ta.available
    /\ collaborator = "unreliable"
    /\ Len(ta.questions) = 2
    /\ ta.questions[1].list = <<"Paris", "Rome">>
    /\ ta.questions[2].dict.question_no = 3
    /\ ta.result[1][1].list = <<gujarati("Paris"), "Rome">>
    /\ ta.result[1][2].dict.question = gujarati("Capital of France?")
    /\ ta.result[1][2].dict.question_no = 3

C24_WitnessNoTranslator ==
    /\ ta.pc = "returned"
    /\ ~ta.available
    /\ Len(ta.questions) = 2
    /\ ta.result = Some(ta.questions)

----------------------------------------------------------------------------
(* The exit status of IndiaBix/main.py.                                    *)

BothPdfsProduced == DetailedPath \in files /\ CompactPath \in files

(* C25: when IndiaBix/main.py has exited its status is 0 or 1, and it is 0 *)
(* exactly when the run wrote both the detailed and the compact PDF: with  *)
(* no record, with a rendering that gave None, or with an exception in     *)
(* main, it is 1.                                                          *)
C25_ExitZeroIffBothPdfs ==
    (program = "IndiaBix/main.py" /\ Exited) =>
        /\ exit_status \in {Some(0), Some(1)}
        /\ exit_status = Some(0) <=> BothPdfsProduced
        /\ (main_questions = <<>> \/ failure # None
            \/ pdf_path_detailed = None \/ pdf_path_compact = None)
           => exit_status = Some(1)

C25_Witness ==
    /\ program = "IndiaBix/main.py"
    /\ Exited
    /\ BothPdfsProduced
    /\ pdf_path_detailed = Some(DetailedPath)
    /\ pdf_path_compact = Some(CompactPath)
    /\ exit_status = Some(0)

C25_WitnessOnePdf ==
    /\ program = "IndiaBix/main.py"
    /\ Exited
    /\ files = {DetailedPath}
    /\ pdf_path_compact = None
    /\ exit_status = Some(1)

----------------------------------------------------------------------------
(* Termination.  The loops of a run: the scrape over the dates with the    *)
(* transport's retries, the attempts of translate_text_with_retry, and the *)
(* steps of IndiaBix/main.py up to its exit.  The program is sequential    *)
(* and every call of the transport and of the translation service returns  *)
(* or fails, so a step that can be taken is taken: weak fairness of the    *)
(* next-state relation.                                                    *)

(* config.py 45-47: the list a run is given holds each day once *)
InitScrape ==
    /\ Init
    /\ \A i, j \in 1..Len(dates) : i # j => dates[i] # dates[j]

InitRun == InitScrape \/ InitRetry \/ InitMain

NextRun == Next \/ NextRetry \/ NextMain

SpecRun == InitRun /\ [][NextRun]_vars /\ WF_vars(NextRun)

(* the part that runs has come to its end *)
RunEnded ==
    \/ pc \in {"done", "raised"}
    \/ rt.pc = "returned"
    \/ main_pc = "exited"

(* C21: every run ends: scrape_weekly_questions returns or raises whatever *)
(* the transport answers on each of its dates, translate_text_with_retry   *)
(* returns whatever the service replies, and main reaches its exit.        *)
C21_RunTerminates == <>RunEnded

C21_Witness ==
    /\ Done
    /\ Len(dates) > 1
    /\ Len(fetch_log) = Len(dates)
    /\ \E i \in 1..Len(responses) : IsRetryableStatus(responses[i])

C21_WitnessRetries ==
    /\ rt.pc = "returned"
    /\ CallsUpTo(rt.log, Len(rt.log)) = max_retries

C21_WitnessExit ==
    /\ Exited
    /\ BothPdfsProduced

====
